---- MODULE Spec2Model ----
(***************************************************************************)
(* A model of the blog service: the post, comment and like controllers of  *)
(* react-blog-backend over the document store, and the CommentSection      *)
(* widget of react-blog-frontend as a client of the comment endpoints.     *)
(***************************************************************************)
EXTENDS Integers, Sequences, FiniteSets, TLC

(* ------------------------------ bounds -------------------------------- *)
\* At most MaxComments comments, MaxLikes likes and MaxTags tags (and as many
\* categories) are ever constructed in one behaviour.
MaxComments == 2
MaxLikes == 2
MaxTags == 2

\* Two principals: every ownership check compares one author with one requester.
Users == {1, 2}
\* Two posts: the one a request is about and another one.
PostIds == {1, 2}

(* ------------------------- identifiers, strings ----------------------- *)
\* An ObjectId of collection k: ids are unique across collections.
Oid(k, n) == [k |-> k, n |-> n]
\* ObjectId.prototype.toString(): the hex string of the id.
IdString(o) == [str |-> o]
\* Mongoose casts an id string in a query or a constructor to an ObjectId.
CastOid(s) == s.str
\* req.user.id of user u, and the req.params.id naming document n of k.
UserId(u) == IdString(Oid("user", u))
ParamId(k, n) == IdString(Oid(k, n))

\* JavaScript truthiness of a string.
Truthy(s) == s # ""

\* The elements of a sequence.
Range(s) == {s[i] : i \in DOMAIN s}

(* ------------------------------- state -------------------------------- *)
VARIABLES
  posts,       \* the Post collection: a set of documents
  comments,    \* the Comment collection
  likes,       \* the Like collection
  tags,        \* the Tag collection
  categories,  \* the Category collection
  made,        \* how many ObjectIds each collection's constructor has made
  failed,      \* which kind of database operation has failed so far
  resp,        \* the last handler run and the status its client received
  reqs,        \* the createPost/updatePost requests in progress, by slot
  resolved,    \* the (kind, name, id) triples find-or-create has returned
  widget,      \* the React state of one mounted CommentSection
  net          \* the widget's HTTP request or response in flight

store == <<posts, comments, likes, tags, categories>>
slots == <<reqs, resolved>>
front == <<widget, net>>
vars == <<posts, comments, likes, tags, categories, made, failed, resp,
          reqs, resolved, widget, net>>

\* Two requests may be in progress at once.
Slots == {1, 2}
Idle == [pc |-> "idle", op |-> "none", user |-> UserId(1), id |-> IdString(Oid("post", 0)),
         title |-> "", names |-> << >>, cnames |-> << >>,
         tagIds |-> << >>, categoryIds |-> << >>, new |-> Oid("none", 0),
         first |-> 0]

NoResp == [op |-> "none", status |-> 0]
Resp(op, status) == [op |-> op, status |-> status]

\* The documents of collection coll with the id string s names.
FindById(coll, s) == {d \in coll : d._id = CastOid(s)}
\* coll with document d written (inserted, or replacing the one with its id).
Save(coll, d) == {e \in coll : e._id # d._id} \cup {d}

\* Severity of the database failures seen: a write failure dominates.
Fail(kind) ==
  IF kind = "write" \/ failed = "write" THEN "write"
  ELSE IF kind = "read" \/ failed = "read" THEN "read"
  ELSE "none"

\* JSON values as the widget sees them: arrays and objects are told apart.
JArray(items) == [t |-> "array", items |-> items]
JObject(fields) == [t |-> "object", fields |-> fields]
JUndefined == [t |-> "undefined"]
JNull == [t |-> "null"]
JString(s) == [t |-> "string", v |-> s]
JNumber(n) == [t |-> "number", v |-> n]
\* Array.isArray(v), and v.key of an object (undefined when the key is absent).
IsArray(v) == v.t = "array"
Get(v, key) ==
  IF v.t = "object" /\ key \in DOMAIN v.fields THEN v.fields[key] ELSE JUndefined

\* The widget's requests go out on channels; nothing is in flight on one.
Channels == {1, 2}
NoNet == [phase |-> "idle", method |-> "", id |-> ParamId("none", 0),
          token |-> "", user |-> UserId(0), content |-> "", edit |-> JUndefined,
          status |-> 0, body |-> JUndefined]

Init ==
  /\ posts = {}
  /\ comments = {}
  /\ likes = {}
  /\ tags = {}
  /\ categories = {}
  /\ made = [k \in {"post", "comment", "like", "tag", "category"} |-> 0]
  /\ failed = "none"
  /\ resp = NoResp
  /\ reqs = [r \in Slots |-> Idle]
  /\ resolved = {}
  /\ widget = [comments |-> << >>, newComment |-> "", editComment |-> JNull,
               hideComment |-> FALSE, sortOption |-> "newest", loading |-> FALSE,
               postId |-> 0, alert |-> "", crashed |-> FALSE]
  /\ net = [k \in Channels |-> NoNet]

(* --------------------------- likeController --------------------------- *)
\* The status the client receives when the handler sends `status` after it
\* has already sent `first` (0: nothing sent yet): the first response is the
\* one on the wire, a later res.json() throws and changes nothing.
Sent(first, status) == IF first # 0 THEN first ELSE status

\* The database operation that throws is the f-th from here (0: none does).
Throws(f) == f = 1
After(f) == IF f > 0 THEN f - 1 ELSE 0

\* A findOne that matches on the post alone.
LikeFindOne_AnyUser(userId, postId) == {l \in likes : l.post = CastOid(postId)}

\* Like.findOne({ user: userId, post: postId })
LikeFindOne(userId, postId) ==
  {l \in likes : l.user = CastOid(userId) /\ l.post = CastOid(postId)}

\* addLike: what is already sent once the existing-like check is passed.
AddLikeExistingCheck(existingLike) == IF existingLike # {} THEN 400 ELSE 0

\* addLike: post.likes.push(like._id)
AddLikePush(post, like) == [post EXCEPT !.likes = Append(@, like._id)]

\* exports.addLike
AddLike(u, p, f) ==
  LET userId == UserId(u)
      postId == ParamId("post", p)
      found == FindById(posts, postId)
  IN
  IF Throws(f) THEN
    /\ resp' = Resp("addLike", 500)
    /\ failed' = Fail("read")
    /\ UNCHANGED <<store, made>>
  ELSE IF found = {} THEN
    /\ resp' = Resp("addLike", 404)
    /\ UNCHANGED <<store, made, failed>>
  ELSE IF Throws(After(f)) THEN
    /\ resp' = Resp("addLike", 500)
    /\ failed' = Fail("read")
    /\ UNCHANGED <<store, made>>
  ELSE
    LET post == CHOOSE d \in found : TRUE
        first == AddLikeExistingCheck(LikeFindOne(userId, postId))
        like == [_id |-> Oid("like", made.like + 1),
                 user |-> CastOid(userId), post |-> CastOid(postId)]
        f3 == After(After(f))
    IN
    /\ made.like < MaxLikes
    /\ made' = [made EXCEPT !.like = @ + 1]
    /\ UNCHANGED <<comments, tags, categories>>
    /\ IF Throws(f3) THEN            \* post.save() throws
         /\ resp' = Resp("addLike", Sent(first, 500))
         /\ failed' = Fail("write")
         /\ UNCHANGED <<posts, likes>>
       ELSE IF Throws(After(f3)) THEN   \* like.save() throws
         /\ posts' = Save(posts, AddLikePush(post, like))
         /\ resp' = Resp("addLike", Sent(first, 500))
         /\ failed' = Fail("write")
         /\ UNCHANGED likes
       ELSE
         /\ posts' = Save(posts, AddLikePush(post, like))
         /\ likes' = Save(likes, like)
         /\ resp' = Resp("addLike", Sent(first, 201))
         /\ UNCHANGED failed

\* A removeLike that saves the post with its likes list as it was.
RemoveLikeFilter_Keep(post, like) == post

\* removeLike: post.likes.filter(likeId => likeId.toString() !== like._id.toString())
RemoveLikeFilter(post, like) ==
  [post EXCEPT !.likes =
     SelectSeq(@, LAMBDA likeId : IdString(likeId) # IdString(like._id))]

\* exports.removeLike
RemoveLike(u, p, f) ==
  LET userId == UserId(u)
      postId == ParamId("post", p)
      found == LikeFindOne(userId, postId)
  IN
  IF Throws(f) THEN
    /\ resp' = Resp("removeLike", 500)
    /\ failed' = Fail("read")
    /\ UNCHANGED <<store, made>>
  ELSE IF found = {} THEN
    /\ resp' = Resp("removeLike", 404)
    /\ UNCHANGED <<store, made, failed>>
  ELSE
    \E like \in found :
      LET f2 == After(f)
          postFound == FindById(posts, postId)
      IN
      /\ UNCHANGED <<comments, tags, categories, made>>
      /\ IF IdString(like.user) # userId THEN
           /\ resp' = Resp("removeLike", 403)
           /\ UNCHANGED <<posts, likes, failed>>
         ELSE IF Throws(f2) THEN                  \* like.deleteOne() throws
           /\ resp' = Resp("removeLike", 500)
           /\ failed' = Fail("write")
           /\ UNCHANGED <<posts, likes>>
         ELSE IF Throws(After(f2)) THEN           \* Post.findById throws
           /\ likes' = likes \ {like}
           /\ resp' = Resp("removeLike", 500)
           /\ failed' = Fail("read")
           /\ UNCHANGED posts
         ELSE IF postFound = {} THEN              \* post is null: TypeError
           /\ likes' = likes \ {like}
           /\ resp' = Resp("removeLike", 500)
           /\ UNCHANGED <<posts, failed>>
         ELSE IF Throws(After(After(f2))) THEN    \* post.save() throws
           /\ likes' = likes \ {like}
           /\ resp' = Resp("removeLike", 500)
           /\ failed' = Fail("write")
           /\ UNCHANGED posts
         ELSE
           /\ likes' = likes \ {like}
           /\ posts' = Save(posts, RemoveLikeFilter(CHOOSE d \in postFound : TRUE, like))
           /\ resp' = Resp("removeLike", 200)
           /\ UNCHANGED failed

(* -------------------------- commentsController ------------------------ *)
\* An ownership check that lets every user through.
NotCommentAuthor_Never(userId, comment) == FALSE

\* editCommentById / deleteCommentById: req.user.id !== comment.author.toString()
NotCommentAuthor(userId, comment) == userId # IdString(comment.author)

\* exports.createComment
CreateComment(u, p, content, f) ==
  LET userId == UserId(u)
      postId == ParamId("post", p)
      found == FindById(posts, postId)
  IN
  IF Throws(f) THEN
    /\ resp' = Resp("createComment", 500)
    /\ failed' = Fail("read")
    /\ UNCHANGED <<store, made>>
  ELSE IF found = {} THEN
    /\ resp' = Resp("createComment", 404)
    /\ UNCHANGED <<store, made, failed>>
  ELSE
    LET chosenPost == CHOOSE d \in found : TRUE
        comment == [_id |-> Oid("comment", made.comment + 1), content |-> content,
                    author |-> CastOid(userId), post |-> CastOid(postId)]
        f2 == After(f)
    IN
    /\ made.comment < MaxComments
    /\ made' = [made EXCEPT !.comment = @ + 1]
    /\ UNCHANGED <<likes, tags, categories>>
    /\ IF Throws(f2) THEN              \* comment.save() throws
         /\ resp' = Resp("createComment", 500)
         /\ failed' = Fail("write")
         /\ UNCHANGED <<posts, comments>>
       ELSE IF Throws(After(f2)) THEN  \* chosenPost.save() throws
         /\ comments' = Save(comments, comment)
         /\ resp' = Resp("createComment", 500)
         /\ failed' = Fail("write")
         /\ UNCHANGED posts
       ELSE
         /\ comments' = Save(comments, comment)
         /\ posts' = Save(posts, [chosenPost EXCEPT !.comments = Append(@, comment._id)])
         /\ resp' = Resp("createComment", 201)
         /\ UNCHANGED failed

\* editCommentById: comment.content = req.body.content || comment.content
EditContent(comment, content) ==
  [comment EXCEPT !.content = IF Truthy(content) THEN content ELSE @]

\* exports.editCommentById
EditCommentById(u, c, content, f) ==
  LET userId == UserId(u)
      commentId == ParamId("comment", c)
      found == FindById(comments, commentId)
  IN
  /\ UNCHANGED <<posts, likes, tags, categories, made>>
  /\ IF Throws(f) THEN
       /\ resp' = Resp("editComment", 500)
       /\ failed' = Fail("read")
       /\ UNCHANGED comments
     ELSE IF found = {} THEN
       /\ resp' = Resp("editComment", 404)
       /\ UNCHANGED <<comments, failed>>
     ELSE
       LET comment == CHOOSE d \in found : TRUE IN
       IF NotCommentAuthor(userId, comment) THEN
         /\ resp' = Resp("editComment", 403)
         /\ UNCHANGED <<comments, failed>>
       ELSE IF Throws(After(f)) THEN    \* comment.save() throws
         /\ resp' = Resp("editComment", 500)
         /\ failed' = Fail("write")
         /\ UNCHANGED comments
       ELSE
         /\ comments' = Save(comments, EditContent(comment, content))
         /\ resp' = Resp("editComment", 200)
         /\ UNCHANGED failed

\* A deleteCommentById that leaves the post's comments list alone.
PullComment_None(comment) == posts

\* deleteCommentById: Post.updateOne({ _id: comment.post }, { $pull: { comments: comment._id } })
PullComment(comment) ==
  {IF d._id = comment.post
     THEN [d EXCEPT !.comments = SelectSeq(@, LAMBDA id : id # comment._id)]
     ELSE d : d \in posts}

\* exports.deleteCommentById
DeleteCommentById(u, c, f) ==
  LET userId == UserId(u)
      commentId == ParamId("comment", c)
      found == FindById(comments, commentId)
  IN
  /\ UNCHANGED <<likes, tags, categories, made>>
  /\ IF Throws(f) THEN
       /\ resp' = Resp("deleteComment", 500)
       /\ failed' = Fail("read")
       /\ UNCHANGED <<posts, comments>>
     ELSE IF found = {} THEN
       /\ resp' = Resp("deleteComment", 404)
       /\ UNCHANGED <<posts, comments, failed>>
     ELSE
       LET comment == CHOOSE d \in found : TRUE IN
       IF NotCommentAuthor(userId, comment) THEN
         /\ resp' = Resp("deleteComment", 403)
         /\ UNCHANGED <<posts, comments, failed>>
       ELSE IF Throws(After(f)) THEN            \* Post.updateOne throws
         /\ resp' = Resp("deleteComment", 500)
         /\ failed' = Fail("write")
         /\ UNCHANGED <<posts, comments>>
       ELSE IF Throws(After(After(f))) THEN     \* comment.deleteOne() throws
         /\ posts' = PullComment(comment)
         /\ resp' = Resp("deleteComment", 500)
         /\ failed' = Fail("write")
         /\ UNCHANGED comments
       ELSE
         /\ posts' = PullComment(comment)
         /\ comments' = comments \ {comment}
         /\ resp' = Resp("deleteComment", 200)
         /\ UNCHANGED failed

(* ---------------------------- postController -------------------------- *)
\* A field of req.body: absent (undefined) or given with value v.
Undefined(v) == [given |-> FALSE, v |-> v]
Given(v) == [given |-> TRUE, v |-> v]

\* The find-or-create loop shared by createOrGetTags and createOrGetCategories,
\* run to its end without interruption: names still to resolve, the collection coll
\* of kind k, n ids made so far, the database operation f that throws (counted from
\* here, 0: none), and the ids pushed so far.  findOne returns the oldest match.
RECURSIVE FindOrCreate(_, _, _, _, _, _)
FindOrCreate(k, names, coll, n, f, ids) ==
  IF names = << >> THEN
    [ids |-> ids, coll |-> coll, n |-> n, f |-> f, threw |-> "none"]
  ELSE IF Throws(f) THEN                  \* findOne throws
    [ids |-> ids, coll |-> coll, n |-> n, f |-> 0, threw |-> "read"]
  ELSE
    LET hit == {t \in coll : t.name = Head(names)}
        old == CHOOSE t \in hit : \A t2 \in hit : t._id.n <= t2._id.n
        new == [_id |-> Oid(k, n + 1), name |-> Head(names)]
    IN
    IF hit # {} THEN
      FindOrCreate(k, Tail(names), coll, n, After(f), Append(ids, old._id))
    ELSE IF Throws(After(f)) THEN         \* save() throws
      [ids |-> ids, coll |-> coll, n |-> n + 1, f |-> 0, threw |-> "write"]
    ELSE
      FindOrCreate(k, Tail(names), coll \cup {new}, n + 1, After(After(f)),
                   Append(ids, new._id))

\* createOrGetTags(tags), createOrGetCategories(categories)
createOrGetTags(names, f) == FindOrCreate("tag", names, tags, made.tag, f, << >>)
createOrGetCategories(names, f) ==
  FindOrCreate("category", names, categories, made.category, f, << >>)

\* exports.createPost
CreatePost(u, body, f) ==
  LET userId == UserId(u)
      rt == createOrGetTags(body.tags.v, f)
      rc == createOrGetCategories(body.categories.v, rt.f)
      post == [_id |-> Oid("post", made.post + 1), author |-> CastOid(userId),
               title |-> body.title.v, content |-> body.content.v,
               tags |-> rt.ids, categories |-> rc.ids,
               comments |-> << >>, likes |-> << >>]
  IN
  /\ UNCHANGED <<comments, likes>>
  /\ IF ~body.tags.given THEN             \* tags is not iterable: TypeError
       /\ resp' = Resp("createPost", 500)
       /\ UNCHANGED <<posts, tags, categories, made, failed>>
     ELSE IF rt.threw # "none" THEN
       /\ rt.n <= MaxTags
       /\ tags' = rt.coll
       /\ made' = [made EXCEPT !.tag = rt.n]
       /\ resp' = Resp("createPost", 500)
       /\ failed' = Fail(rt.threw)
       /\ UNCHANGED <<posts, categories>>
     ELSE IF ~body.categories.given THEN  \* categories is not iterable: TypeError
       /\ rt.n <= MaxTags
       /\ tags' = rt.coll
       /\ made' = [made EXCEPT !.tag = rt.n]
       /\ resp' = Resp("createPost", 500)
       /\ UNCHANGED <<posts, categories, failed>>
     ELSE IF rc.threw # "none" THEN
       /\ rt.n <= MaxTags /\ rc.n <= MaxTags
       /\ tags' = rt.coll
       /\ categories' = rc.coll
       /\ made' = [made EXCEPT !.tag = rt.n, !.category = rc.n]
       /\ resp' = Resp("createPost", 500)
       /\ failed' = Fail(rc.threw)
       /\ UNCHANGED posts
     ELSE
       /\ rt.n <= MaxTags /\ rc.n <= MaxTags /\ made.post + 1 \in PostIds
       /\ tags' = rt.coll
       /\ categories' = rc.coll
       /\ made' = [made EXCEPT !.tag = rt.n, !.category = rc.n, !.post = @ + 1]
       /\ IF Throws(rc.f) THEN            \* post.save() throws
            /\ resp' = Resp("createPost", 500)
            /\ failed' = Fail("write")
            /\ UNCHANGED posts
          ELSE
            /\ posts' = Save(posts, post)
            /\ resp' = Resp("createPost", 201)
            /\ UNCHANGED failed

\* An ownership check that lets every user through.
NotPostAuthor_Never(userId, post) == FALSE

\* updatePost / deletePost: req.user.id !== post.author.toString()
NotPostAuthor(userId, post) == userId # IdString(post.author)

\* updatePost: the editedPost object before tags and categories are resolved.
EditedPost(chosenPost, body) ==
  [title |-> IF body.title.given /\ Truthy(body.title.v)
               THEN body.title.v ELSE chosenPost.title,
   content |-> IF body.content.given /\ Truthy(body.content.v)
                 THEN body.content.v ELSE chosenPost.content,
   tags |-> chosenPost.tags,
   categories |-> chosenPost.categories]

\* A findByIdAndUpdate that replaces the document by the update object.
FindByIdAndUpdate_Replace(post, editedPost) ==
  [post EXCEPT !.title = editedPost.title, !.content = editedPost.content,
               !.tags = editedPost.tags, !.categories = editedPost.categories,
               !.comments = << >>, !.likes = << >>]

\* Post.findByIdAndUpdate(id, editedPost): the fields of editedPost are set.
FindByIdAndUpdate(post, editedPost) ==
  [post EXCEPT !.title = editedPost.title, !.content = editedPost.content,
               !.tags = editedPost.tags, !.categories = editedPost.categories]

\* exports.updatePost.  A throw of the first Post.findById is outside the try:
\* the handler's promise rejects and no response is sent (status 0).
UpdatePost(u, p, body, f) ==
  LET userId == UserId(u)
      id == ParamId("post", p)
      found == FindById(posts, id)
  IN
  /\ UNCHANGED <<comments, likes>>
  /\ IF Throws(f) THEN
       /\ resp' = Resp("updatePost", 0)
       /\ failed' = Fail("read")
       /\ UNCHANGED <<posts, tags, categories, made>>
     ELSE IF found = {} THEN
       /\ resp' = Resp("updatePost", 404)
       /\ UNCHANGED <<posts, tags, categories, made, failed>>
     ELSE
       LET chosenPost == CHOOSE d \in found : TRUE
           rt == IF body.tags.given
                   THEN createOrGetTags(body.tags.v, After(f))
                   ELSE [ids |-> chosenPost.tags, coll |-> tags, n |-> made.tag,
                         f |-> After(f), threw |-> "none"]
           rc == IF body.categories.given
                   THEN createOrGetCategories(body.categories.v, rt.f)
                   ELSE [ids |-> chosenPost.categories, coll |-> categories,
                         n |-> made.category, f |-> rt.f, threw |-> "none"]
           editedPost == [EditedPost(chosenPost, body) EXCEPT
                            !.tags = rt.ids, !.categories = rc.ids]
       IN
       IF NotPostAuthor(userId, chosenPost) THEN
         /\ resp' = Resp("updatePost", 403)
         /\ UNCHANGED <<posts, tags, categories, made, failed>>
       ELSE IF rt.threw # "none" THEN
         /\ rt.n <= MaxTags
         /\ tags' = rt.coll
         /\ made' = [made EXCEPT !.tag = rt.n]
         /\ resp' = Resp("updatePost", 500)
         /\ failed' = Fail(rt.threw)
         /\ UNCHANGED <<posts, categories>>
       ELSE
         /\ rt.n <= MaxTags /\ rc.n <= MaxTags
         /\ tags' = rt.coll
         /\ categories' = rc.coll
         /\ made' = [made EXCEPT !.tag = rt.n, !.category = rc.n]
         /\ IF rc.threw # "none" THEN
              /\ resp' = Resp("updatePost", 500)
              /\ failed' = Fail(rc.threw)
              /\ UNCHANGED posts
            ELSE IF Throws(rc.f) THEN     \* Post.findByIdAndUpdate throws
              /\ resp' = Resp("updatePost", 500)
              /\ failed' = Fail("write")
              /\ UNCHANGED posts
            ELSE
              /\ posts' = Save(posts, FindByIdAndUpdate(chosenPost, editedPost))
              /\ resp' = Resp("updatePost", 200)
              /\ UNCHANGED failed

\* cleanUpTags / cleanUpCategories of utils/cleanup: the documents of coll that
\* some post of ps still references through field.
CleanUp(coll, ps, field) == {t \in coll : \E d \in ps : t._id \in Range(d[field])}

\* A deleteMany that deletes nothing.
DeleteMany_None(coll, post) == coll

\* deletePost: Like.deleteMany({ post: post._id }), Comment.deleteMany({ post: post._id })
DeleteMany(coll, post) == {d \in coll : d.post # post._id}

\* exports.deletePost.  As in updatePost the first Post.findById is outside the try.
DeletePost(u, p, f) ==
  LET userId == UserId(u)
      id == ParamId("post", p)
      found == FindById(posts, id)
  IN
  /\ UNCHANGED made
  /\ IF Throws(f) THEN
       /\ resp' = Resp("deletePost", 0)
       /\ failed' = Fail("read")
       /\ UNCHANGED store
     ELSE IF found = {} THEN
       /\ resp' = Resp("deletePost", 404)
       /\ UNCHANGED <<store, failed>>
     ELSE
       LET post == CHOOSE d \in found : TRUE
           \* the number of the step that throws: 1 Like.deleteMany,
           \* 2 Comment.deleteMany, 3 post.deleteOne, 4 cleanUpTags,
           \* 5 cleanUpCategories; 0: none
           t == After(f)
           done(i) == t = 0 \/ t > i
       IN
       IF NotPostAuthor(userId, post) THEN
         /\ resp' = Resp("deletePost", 403)
         /\ UNCHANGED <<store, failed>>
       ELSE
         /\ t <= 5
         /\ likes' = IF done(1) THEN DeleteMany(likes, post) ELSE likes
         /\ comments' = IF done(2) THEN DeleteMany(comments, post) ELSE comments
         /\ posts' = IF done(3) THEN posts \ {post} ELSE posts
         /\ tags' = IF done(4) THEN CleanUp(tags, posts \ {post}, "tags") ELSE tags
         /\ categories' = IF done(5)
                            THEN CleanUp(categories, posts \ {post}, "categories")
                            ELSE categories
         /\ resp' = Resp("deletePost", IF t = 0 THEN 200 ELSE 500)
         /\ failed' = IF t = 0 THEN failed ELSE Fail("write")

(* ------------------- the backend, one request at a time --------------- *)
\* A post without tags and categories.
PlainBodies ==
  [title : {Given("a")}, content : {Given("a")},
   tags : {Given(<< >>)}, categories : {Given(<< >>)}]
\* A post with a tag and a category, and an update of title and tags.
TaggedBody == [title |-> Given("a"), content |-> Given("a"),
               tags |-> Given(<<"x">>), categories |-> Given(<<"k">>)]
CreateBodies == PlainBodies \cup {TaggedBody}
UpdateBodies ==
  {[title |-> Given("b"), content |-> Undefined(""),
    tags |-> Given(<<"y">>), categories |-> Undefined(<< >>)]}

CommentIds == 1..MaxComments

\* The like endpoints, over plain posts of user 1.
NextLikes ==
  /\ \/ \E b \in PlainBodies : CreatePost(1, b, 0)
     \/ \E u \in Users, p \in PostIds, f \in 0..4 : AddLike(u, p, f)
     \/ \E u \in Users, p \in PostIds, f \in 0..4 : RemoveLike(u, p, f)
  /\ UNCHANGED <<slots, front>>

SpecLikes == Init /\ [][NextLikes]_vars

\* Creating and deleting comments, with database failures, over plain posts
\* of user 1.
NextComments ==
  /\ \/ \E b \in PlainBodies : CreatePost(1, b, 0)
     \/ \E u \in Users, p \in PostIds, f \in 0..3 : CreateComment(u, p, "a", f)
     \/ \E u \in Users, c \in CommentIds, f \in 0..3 : DeleteCommentById(u, c, f)
  /\ UNCHANGED <<slots, front>>

SpecComments == Init /\ [][NextComments]_vars

\* Editing and deleting comments, by their authors and by others.
NextCommentAuth ==
  /\ \/ \E b \in PlainBodies : CreatePost(1, b, 0)
     \/ \E u \in Users, p \in PostIds : CreateComment(u, p, "a", 0)
     \/ \E u \in Users, c \in CommentIds, t \in {"", "b"} : EditCommentById(u, c, t, 0)
     \/ \E u \in Users, c \in CommentIds : DeleteCommentById(u, c, 0)
  /\ UNCHANGED <<slots, front>>

SpecCommentAuth == Init /\ [][NextCommentAuth]_vars

\* The post endpoints, where user 1 comments and likes the first post.
NextPosts ==
  /\ \/ \E u \in Users, b \in CreateBodies : CreatePost(u, b, 0)
     \/ \E u \in Users, p \in PostIds, b \in UpdateBodies : UpdatePost(u, p, b, 0)
     \/ \E u \in Users, p \in PostIds : DeletePost(u, p, 0)
     \/ AddLike(1, 1, 0)
     \/ CreateComment(1, 1, "a", 0)
  /\ UNCHANGED <<slots, front>>

SpecPosts == Init /\ [][NextPosts]_vars

\* Deleting posts that user 1 comments and likes.
NextCascade ==
  /\ \/ \E u \in Users, b \in PlainBodies : CreatePost(u, b, 0)
     \/ \E u \in Users, p \in PostIds : DeletePost(u, p, 0)
     \/ \E p \in PostIds : AddLike(1, p, 0)
     \/ \E p \in PostIds : CreateComment(1, p, "a", 0)
  /\ UNCHANGED <<slots, front>>

SpecCascade == Init /\ [][NextCascade]_vars

(* ---------- createPost and updatePost, one await at a time ------------- *)
\* Between two awaits a handler runs without interruption; at an await any
\* other request in progress may take its next step.
Coll(k) == IF k = "tag" THEN tags ELSE categories

\* Model.save() of a new Tag or Category document: an insert.  Nothing said of
\* the store makes it refuse a second document with the same name.
Insert(coll, doc) == coll \cup {doc}

\* Where a request continues once `names` and `cnames` are what is left to resolve.
Phase(names, cnames) ==
  IF names # << >> THEN "tags" ELSE IF cnames # << >> THEN "categories" ELSE "write"

\* A createPost request arrives: createOrGetTags(tags) is its first call.
BeginCreatePost(r, u, names, cnames) ==
  /\ reqs[r].pc = "idle"
  /\ reqs' = [reqs EXCEPT ![r] =
       [Idle EXCEPT !.pc = Phase(names, cnames), !.op = "createPost",
                    !.user = UserId(u), !.title = "a",
                    !.names = names, !.cnames = cnames]]
  /\ UNCHANGED <<store, made, failed, resp, resolved>>

\* An updatePost request arrives and its Post.findById returns.
BeginUpdatePost(r, u, p, names) ==
  LET userId == UserId(u)
      id == ParamId("post", p)
      found == FindById(posts, id)
  IN
  /\ reqs[r].pc = "idle"
  /\ UNCHANGED <<store, made, failed, resolved>>
  /\ IF found = {} THEN
       /\ resp' = Resp("updatePost", 404)
       /\ UNCHANGED reqs
     ELSE IF NotPostAuthor(userId, CHOOSE d \in found : TRUE) THEN
       /\ resp' = Resp("updatePost", 403)
       /\ UNCHANGED reqs
     ELSE
       /\ reqs' = [reqs EXCEPT ![r] =
            [Idle EXCEPT !.pc = Phase(names, << >>), !.op = "updatePost",
                         !.user = userId, !.id = id, !.title = "b",
                         !.names = names,
                         !.categoryIds = (CHOOSE d \in found : TRUE).categories]]
       /\ UNCHANGED resp

\* createOrGetTags / createOrGetCategories: `await Model.findOne({ name })` returns.
\* A hit is pushed and the loop goes on; a miss constructs the new document,
\* whose save() is the next await.
FindOne(r) ==
  LET q == reqs[r]
      k == IF q.pc = "tags" THEN "tag" ELSE "category"
      name == IF k = "tag" THEN Head(q.names) ELSE Head(q.cnames)
      hit == {t \in Coll(k) : t.name = name}
      names2 == IF k = "tag" THEN Tail(q.names) ELSE q.names
      cnames2 == IF k = "tag" THEN q.cnames ELSE Tail(q.cnames)
  IN
  /\ q.pc \in {"tags", "categories"}
  /\ UNCHANGED <<store, failed, resp>>
  /\ IF hit # {} THEN
       \E t \in hit :
         /\ reqs' = [reqs EXCEPT ![r] =
              [q EXCEPT !.pc = Phase(names2, cnames2),
                        !.names = names2, !.cnames = cnames2,
                        !.tagIds = IF k = "tag" THEN Append(@, t._id) ELSE @,
                        !.categoryIds = IF k = "tag" THEN @ ELSE Append(@, t._id)]]
         /\ resolved' = resolved \cup {[k |-> k, name |-> name, id |-> t._id]}
         /\ UNCHANGED made
     ELSE
       /\ made[k] < MaxTags
       /\ made' = [made EXCEPT ![k] = @ + 1]
       /\ reqs' = [reqs EXCEPT ![r] =
            [q EXCEPT !.pc = IF k = "tag" THEN "tagSave" ELSE "categorySave",
                      !.new = Oid(k, made[k] + 1)]]
       /\ UNCHANGED resolved

\* createOrGetTags / createOrGetCategories: `await tag.save()` returns and the
\* new id is pushed.
SaveNew(r) ==
  LET q == reqs[r]
      k == IF q.pc = "tagSave" THEN "tag" ELSE "category"
      name == IF k = "tag" THEN Head(q.names) ELSE Head(q.cnames)
      names2 == IF k = "tag" THEN Tail(q.names) ELSE q.names
      cnames2 == IF k = "tag" THEN q.cnames ELSE Tail(q.cnames)
      doc == [_id |-> q.new, name |-> name]
  IN
  /\ q.pc \in {"tagSave", "categorySave"}
  /\ tags' = IF k = "tag" THEN Insert(tags, doc) ELSE tags
  /\ categories' = IF k = "tag" THEN categories ELSE Insert(categories, doc)
  /\ reqs' = [reqs EXCEPT ![r] =
       [q EXCEPT !.pc = Phase(names2, cnames2),
                 !.names = names2, !.cnames = cnames2,
                 !.tagIds = IF k = "tag" THEN Append(@, q.new) ELSE @,
                 !.categoryIds = IF k = "tag" THEN @ ELSE Append(@, q.new)]]
  /\ resolved' = resolved \cup {[k |-> k, name |-> name, id |-> q.new]}
  /\ UNCHANGED <<posts, comments, likes, made, failed, resp>>

\* createPost: `await post.save()`; updatePost: `await Post.findByIdAndUpdate(...)`;
\* then the response.
WritePost(r) ==
  LET q == reqs[r]
      post == [_id |-> Oid("post", made.post + 1), author |-> CastOid(q.user),
               title |-> q.title, content |-> "a",
               tags |-> q.tagIds, categories |-> q.categoryIds,
               comments |-> << >>, likes |-> << >>]
      found == FindById(posts, q.id)
  IN
  /\ q.pc = "write"
  /\ reqs' = [reqs EXCEPT ![r] = Idle]
  /\ UNCHANGED <<comments, likes, tags, categories, failed, resolved>>
  /\ IF q.op = "createPost" THEN
       /\ made.post + 1 \in PostIds
       /\ made' = [made EXCEPT !.post = @ + 1]
       /\ posts' = Save(posts, post)
       /\ resp' = Resp("createPost", 201)
     ELSE
       /\ posts' = {IF d \in found
                      THEN [d EXCEPT !.title = q.title, !.tags = q.tagIds,
                                     !.categories = q.categoryIds]
                      ELSE d : d \in posts}
       /\ resp' = Resp("updatePost", IF found = {} THEN 500 ELSE 200)
       /\ UNCHANGED made

\* User 1 creates posts tagged "x"; either user asks to retag a post "y", "x".
NextResolve ==
  /\ \/ \E r \in Slots, cnames \in {<< >>, <<"k">>} : BeginCreatePost(r, 1, <<"x">>, cnames)
     \/ \E r \in Slots, u \in Users, p \in PostIds : BeginUpdatePost(r, u, p, <<"y", "x">>)
     \/ \E r \in Slots : FindOne(r)
     \/ \E r \in Slots : SaveNew(r)
     \/ \E r \in Slots : WritePost(r)
  /\ UNCHANGED front

SpecResolve == Init /\ [][NextResolve]_vars

\* C9: there is at most one Tag and one Category record per name, and two
\* resolutions of the same name return the same id, also when two requests
\* resolve the same new name with their steps interleaved.
C9_OneRecordPerName ==
  /\ \A t1 \in tags, t2 \in tags : t1.name = t2.name => t1 = t2
  /\ \A c1 \in categories, c2 \in categories : c1.name = c2.name => c1 = c2
  /\ \A a \in resolved, b \in resolved : a.k = b.k /\ a.name = b.name => a.id = b.id

(* ------------------- CommentSection and its backend ------------------- *)
\* The createdAt timestamp of a record: the model's clock is the collection's
\* id counter, so a record made later has a later timestamp.
CreatedAt(c) == c._id.n

\* A Comment document as res.json serialises it: ids become strings.
CommentJSON(c) ==
  JObject([_id |-> IdString(c._id), content |-> JString(c.content),
           author |-> IdString(c.author), post |-> IdString(c.post),
           createdAt |-> JNumber(CreatedAt(c))])

\* Comment.find(...).populate("content author post") as res.json serialises it:
\* ids become strings, the author and post references become documents.
PopulatedJSON(c) ==
  JObject([_id |-> IdString(c._id), content |-> JString(c.content),
           author |-> JObject([_id |-> IdString(c.author)]),
           post |-> JObject([_id |-> IdString(c.post)]),
           createdAt |-> JNumber(CreatedAt(c))])

\* The documents of a set, oldest first (the order find() returns them in).
RECURSIVE InOrder(_)
InOrder(S) ==
  IF S = {} THEN << >>
  ELSE LET d == CHOOSE x \in S : \A y \in S : x._id.n <= y._id.n
       IN <<d>> \o InOrder(S \ {d})

\* fetch(apiUrl, { method, headers: { Authorization: `Bearer ${token}` }, body })
\* with what the handler's closure keeps for the response (editComment._id).
Request(method, id, auth, content, edit) ==
  [NoNet EXCEPT !.phase = "request", !.method = method, !.id = id,
                !.token = auth.token, !.user = auth.id, !.content = content,
                !.edit = edit]
\* res.status(status).json(body) arriving at the widget.
Response(req, status, body) ==
  [req EXCEPT !.phase = "response", !.status = status, !.body = body]

\* exports.getAllComments, answering the widget's GET.
GetAllComments(k, f) ==
  LET postId == net[k].id
      allComments == InOrder({c \in comments : c.post = CastOid(postId)})
  IN
  /\ net[k].phase = "request" /\ net[k].method = "GET"
  /\ UNCHANGED <<store, made, slots, widget>>
  /\ IF Throws(f) THEN
       /\ resp' = Resp("getAllComments", 500)
       /\ failed' = Fail("read")
       /\ net' = [net EXCEPT ![k] = Response(@, 500,
                    JObject([message |-> JString("Failed to fetch comments")]))]
     ELSE
       /\ resp' = Resp("getAllComments", 200)
       /\ UNCHANGED failed
       /\ net' = [net EXCEPT ![k] = Response(@, 200,
                    JObject([allComments |->
                       JArray([i \in DOMAIN allComments |-> PopulatedJSON(allComments[i])])]))]

\* exports.createComment, answering the widget's POST: req.user is the user
\* the token was issued to, and the 201 body is { message, comment }.
ServeCreateComment(k, f) ==
  /\ net[k].phase = "request" /\ net[k].method = "POST"
  /\ \E u \in Users, p \in PostIds :
       /\ net[k].user = UserId(u) /\ net[k].id = ParamId("post", p)
       /\ CreateComment(u, p, net[k].content, f)
  /\ LET body ==
           IF resp'.status = 201
             THEN JObject([message |-> JString("Comment created successfully"),
                           comment |-> CommentJSON(
                             CHOOSE c \in comments' : c._id = Oid("comment", made.comment + 1))])
             ELSE JObject([message |-> JString("Failed to fetch comment")])
     IN net' = [net EXCEPT ![k] = Response(@, resp'.status, body)]
  /\ UNCHANGED <<slots, widget>>

\* getAuthUser(): JSON.parse(localStorage.getItem("auth_user") || "{}")
NoAuthUser == [token |-> "", id |-> UserId(0)]
AuthUser(u) == [token |-> "token", id |-> UserId(u)]
AuthUsers == {NoAuthUser} \cup {AuthUser(u) : u \in Users}

\* A token check that lets every caller through.
HasToken_Always(auth) == TRUE

\* if (!token) { alert("Authentication token not found. Please log in."); return; }
HasToken(auth) == Truthy(auth.token)

\* The alert() messages.
NoTokenAlert == "Authentication token not found. Please log in."
EmptyAlert == "Comment cannot be empty."
NotEditOwnerAlert == "You are restricted to edit this comment, as you are not the owner."
NotOwnerAlert == "You are restricted to delete this comment, as you are not the comment author."
NoSelectionAlert == "No comment selected or content is empty."
UpdatedAlert == "Comment updated successfully!"
DeletedAlert == "Comment deleted successfully!"
FailedAlert(what) == "Failed to " \o what \o ". Please try again."

\* The texts typed into the textarea, and String.prototype.trim on them.
Texts == {"", " ", "b"}
Trim(s) == IF s = " " THEN "" ELSE s

\* response.ok
Ok(status) == status \in 200..299

\* fetchComments: what the parsed response body gives setComments.
CommentsArray(data) ==
  IF IsArray(data) THEN data.items
  ELSE IF IsArray(Get(data, "comments")) THEN Get(data, "comments").items
  ELSE << >>

\* What every widget step leaves alone.
backend == <<store, made, failed, resp, slots>>

\* fetchComments up to its fetch(): the effect of mounting with postId p, or
\* of the postId prop changing to p.
FetchStart(k, p, auth) ==
  /\ ~widget.crashed /\ widget.postId # p
  /\ net[k].phase = "idle"
  /\ UNCHANGED backend
  /\ IF ~HasToken(auth) THEN
       /\ widget' = [widget EXCEPT !.postId = p, !.loading = FALSE,
                                   !.alert = NoTokenAlert]
       /\ UNCHANGED net
     ELSE
       /\ widget' = [widget EXCEPT !.postId = p, !.loading = TRUE]
       /\ net' = [net EXCEPT ![k] = Request("GET", ParamId("post", p), auth, "", JUndefined)]

\* fetchComments from the response on.
FetchDone(k) ==
  /\ net[k].phase = "response" /\ net[k].method = "GET"
  /\ UNCHANGED backend
  /\ net' = [net EXCEPT ![k] = NoNet]
  /\ IF widget.crashed THEN UNCHANGED widget
     ELSE widget' = [widget EXCEPT
            !.comments = IF Ok(net[k].status) THEN CommentsArray(net[k].body) ELSE @,
            !.alert = IF Ok(net[k].status) THEN @ ELSE FailedAlert("get comments"),
            !.loading = FALSE]

\* The textarea's onChange; the textarea is disabled while loading.
SetNewComment(text) ==
  /\ ~widget.crashed /\ widget.postId # 0 /\ ~widget.loading
  /\ widget.newComment # text
  /\ widget' = [widget EXCEPT !.newComment = text]
  /\ UNCHANGED <<backend, net>>

\* The submit button's disabled={!newComment.trim() || loading}.
SubmitEnabled == Truthy(Trim(widget.newComment)) /\ ~widget.loading

\* handleAddComment up to its fetch(): the form's submit event outside edit
\* mode.  The browser's default action for the event is not modelled.
HandleAddComment(k, auth) ==
  /\ ~widget.crashed /\ widget.postId # 0
  /\ widget.editComment = JNull
  /\ net[k].phase = "idle"
  /\ UNCHANGED backend
  /\ IF ~HasToken(auth) \/ ~Truthy(Trim(widget.newComment)) THEN
       /\ widget' = [widget EXCEPT !.newComment = "", !.loading = FALSE,
            !.alert = IF ~HasToken(auth) THEN NoTokenAlert ELSE EmptyAlert]
       /\ UNCHANGED net
     ELSE
       /\ widget' = [widget EXCEPT !.loading = TRUE]
       /\ net' = [net EXCEPT ![k] =
            Request("POST", ParamId("post", widget.postId), auth, widget.newComment, JUndefined)]

\* handleAddComment: setComments((prevComments) => [createdComment, ...prevComments])
AddCreated(createdComment, prevComments) == <<createdComment>> \o prevComments

\* handleAddComment from the response on.
AddDone(k) ==
  /\ net[k].phase = "response" /\ net[k].method = "POST"
  /\ UNCHANGED backend
  /\ net' = [net EXCEPT ![k] = NoNet]
  /\ IF widget.crashed THEN UNCHANGED widget
     ELSE widget' = [widget EXCEPT
            !.comments = IF Ok(net[k].status) THEN AddCreated(net[k].body, @) ELSE @,
            !.alert = IF Ok(net[k].status) THEN @ ELSE FailedAlert("add comment"),
            !.newComment = "",
            !.loading = FALSE]

\* handleEditComment(comment): the Edit button of the i-th stored comment.
\* The next render evaluates newComment.trim(): with comment.content not a
\* string it throws, and the component is unmounted.
HandleEditComment(i) ==
  /\ ~widget.crashed /\ ~widget.hideComment
  /\ i \in DOMAIN widget.comments
  /\ UNCHANGED <<backend, net>>
  /\ LET comment == widget.comments[i]
         content == Get(comment, "content")
     IN IF content.t = "string"
          THEN widget' = [widget EXCEPT !.editComment = comment, !.newComment = content.v]
          ELSE widget' = [widget EXCEPT !.editComment = comment, !.crashed = TRUE]

\* The Cancel button of edit mode.
CancelEdit ==
  /\ ~widget.crashed /\ widget.editComment # JNull
  /\ widget' = [widget EXCEPT !.editComment = JNull, !.newComment = ""]
  /\ UNCHANGED <<backend, net>>

\* handleUpdateComment / handleDeleteComment: currentUserId !== author
NotOwner(currentUserId, author) == currentUserId # author

\* handleUpdateComment up to its fetch(): the form's submit event in edit mode.
HandleUpdateComment(k, auth) ==
  /\ ~widget.crashed /\ widget.postId # 0
  /\ widget.editComment # JNull
  /\ net[k].phase = "idle"
  /\ UNCHANGED backend
  /\ LET editComment == widget.editComment IN
     IF \/ ~HasToken(auth)
        \/ NotOwner(auth.id, Get(editComment, "author"))
        \/ Get(editComment, "_id") = JUndefined
        \/ ~Truthy(Trim(widget.newComment))
     THEN
       /\ widget' = [widget EXCEPT !.editComment = JNull, !.newComment = "",
            !.loading = FALSE,
            !.alert = IF ~HasToken(auth) THEN NoTokenAlert
                      ELSE IF NotOwner(auth.id, Get(editComment, "author"))
                        THEN NotEditOwnerAlert
                      ELSE NoSelectionAlert]
       /\ UNCHANGED net
     ELSE
       /\ widget' = [widget EXCEPT !.loading = TRUE]
       /\ net' = [net EXCEPT ![k] =
            Request("PUT", Get(editComment, "_id"), auth, widget.newComment,
                    Get(editComment, "_id"))]

\* handleUpdateComment: prevComments.map((comment) => comment._id === editComment._id
\*   ? { ...comment, content: updatedComment.content } : comment)
MapUpdated(prevComments, editId, updatedComment) ==
  [i \in DOMAIN prevComments |->
     IF Get(prevComments[i], "_id") = editId
       THEN JObject([key \in DOMAIN prevComments[i].fields \cup {"content"} |->
              IF key = "content" THEN Get(updatedComment, "content")
              ELSE prevComments[i].fields[key]])
       ELSE prevComments[i]]

\* handleUpdateComment from the response on.
UpdateDone(k) ==
  /\ net[k].phase = "response" /\ net[k].method = "PUT"
  /\ UNCHANGED backend
  /\ net' = [net EXCEPT ![k] = NoNet]
  /\ IF widget.crashed THEN UNCHANGED widget
     ELSE widget' = [widget EXCEPT
            !.comments = IF Ok(net[k].status)
                           THEN MapUpdated(@, net[k].edit, net[k].body) ELSE @,
            !.alert = IF Ok(net[k].status) THEN UpdatedAlert
                      ELSE FailedAlert("update the comment"),
            !.editComment = JNull,
            !.newComment = "",
            !.loading = FALSE]

\* handleDeleteComment(comment._id, comment.author) up to its fetch(): the
\* Delete button of the i-th stored comment.
HandleDeleteComment(k, i, auth) ==
  /\ ~widget.crashed /\ ~widget.hideComment
  /\ i \in DOMAIN widget.comments
  /\ net[k].phase = "idle"
  /\ UNCHANGED backend
  /\ LET commentId == Get(widget.comments[i], "_id")
         commentAuthorId == Get(widget.comments[i], "author")
     IN
     IF ~HasToken(auth) \/ NotOwner(auth.id, commentAuthorId) THEN
       /\ widget' = [widget EXCEPT !.loading = FALSE,
            !.alert = IF ~HasToken(auth) THEN NoTokenAlert ELSE NotOwnerAlert]
       /\ UNCHANGED net
     ELSE
       /\ widget' = [widget EXCEPT !.loading = TRUE]
       /\ net' = [net EXCEPT ![k] = Request("DELETE", commentId, auth, "", commentId)]

\* handleDeleteComment: prevComments.filter((comment) => comment._id !== commentId)
FilterDeleted(prevComments, commentId) ==
  SelectSeq(prevComments, LAMBDA comment : Get(comment, "_id") # commentId)

\* handleDeleteComment from the response on.
DeleteDone(k) ==
  /\ net[k].phase = "response" /\ net[k].method = "DELETE"
  /\ UNCHANGED backend
  /\ net' = [net EXCEPT ![k] = NoNet]
  /\ IF widget.crashed THEN UNCHANGED widget
     ELSE widget' = [widget EXCEPT
            !.comments = IF Ok(net[k].status) THEN FilterDeleted(@, net[k].edit) ELSE @,
            !.alert = IF Ok(net[k].status) THEN DeletedAlert
                      ELSE FailedAlert("delete the comment"),
            !.loading = FALSE]

\* toggleShowComments
ToggleShowComments ==
  /\ ~widget.crashed /\ widget.postId # 0
  /\ widget' = [widget EXCEPT !.hideComment = ~@]
  /\ UNCHANGED <<backend, net>>

\* The sort select's onChange.
SetSortOption(option) ==
  /\ ~widget.crashed /\ widget.postId # 0
  /\ widget.sortOption # option
  /\ widget' = [widget EXCEPT !.sortOption = option]
  /\ UNCHANGED <<backend, net>>

\* new Date(comment.createdAt): NaN unless createdAt is a timestamp.
NaN == [t |-> "NaN"]
DateOf(comment) ==
  LET createdAt == Get(comment, "createdAt")
  IN IF createdAt.t = "number" THEN createdAt ELSE NaN

\* renderComments: the comparator handed to sort; a NaN result counts as 0.
Compare(a, b, sortOption) ==
  IF DateOf(a) = NaN \/ DateOf(b) = NaN THEN 0
  ELSE IF sortOption = "newest" THEN DateOf(b).v - DateOf(a).v
  ELSE IF sortOption = "oldest" THEN DateOf(a).v - DateOf(b).v
  ELSE 0

\* Array.prototype.sort, a stable sort: x goes behind the elements that do
\* not compare greater than it.
RECURSIVE InsertSorted(_, _, _)
InsertSorted(s, x, sortOption) ==
  IF s = << >> THEN <<x>>
  ELSE IF Compare(s[Len(s)], x, sortOption) > 0
    THEN Append(InsertSorted(SubSeq(s, 1, Len(s) - 1), x, sortOption), s[Len(s)])
  ELSE Append(s, x)

RECURSIVE Sort(_, _)
Sort(s, sortOption) ==
  IF s = << >> THEN << >>
  ELSE InsertSorted(Sort(SubSeq(s, 1, Len(s) - 1), sortOption), s[Len(s)], sortOption)

\* renderComments: the stored comments in the order they are rendered in.
renderComments == Sort(widget.comments, widget.sortOption)

\* One widget fetching, and other clients that create posts and comments.
NextWidget ==
  \/ /\ \/ \E b \in PlainBodies : CreatePost(1, b, 0)
        \/ \E u \in Users, p \in PostIds : CreateComment(u, p, "a", 0)
     /\ UNCHANGED <<slots, front>>
  \/ \E p \in PostIds, auth \in AuthUsers : FetchStart(1, p, auth)
  \/ \E f \in 0..1 : GetAllComments(1, f)
  \/ FetchDone(1)

SpecWidget == Init /\ [][NextWidget]_vars

\* One widget used through its form, buttons and select, one request at a
\* time.  Edit mode is never entered by a widget that still renders, so
\* CancelEdit, HandleUpdateComment and UpdateDone never run, and no DELETE
\* is ever sent, so DeleteDone never runs.
NextWidgetOps ==
  \/ /\ \E b \in PlainBodies : CreatePost(1, b, 0)
     /\ UNCHANGED <<slots, front>>
  \/ \E p \in PostIds, auth \in AuthUsers : FetchStart(1, p, auth)
  \/ GetAllComments(1, 0)
  \/ FetchDone(1)
  \/ \E text \in Texts : SetNewComment(text)
  \/ \E auth \in AuthUsers : HandleAddComment(1, auth)
  \/ ServeCreateComment(1, 0)
  \/ AddDone(1)
  \/ \E i \in 1..MaxComments : HandleEditComment(i)
  \/ \E i \in 1..MaxComments, auth \in AuthUsers : HandleDeleteComment(1, i, auth)
  \/ ToggleShowComments
  \/ \E option \in {"newest", "oldest"} : SetSortOption(option)

SpecWidgetOps == Init /\ [][NextWidgetOps]_vars

\* One widget and the requests it sends, whoever is logged in.
NextWidgetAuth ==
  \/ /\ CreatePost(1, CHOOSE b \in PlainBodies : TRUE, 0)
     /\ made.post = 0
     /\ UNCHANGED <<slots, front>>
  \/ \E p \in PostIds, auth \in AuthUsers : FetchStart(1, p, auth)
  \/ GetAllComments(1, 0)
  \/ FetchDone(1)
  \/ \E text \in Texts : SetNewComment(text)
  \/ \E auth \in AuthUsers : HandleAddComment(1, auth)
  \/ ServeCreateComment(1, 0)
  \/ AddDone(1)
  \/ \E i \in 1..MaxComments, auth \in AuthUsers : HandleDeleteComment(1, i, auth)

SpecWidgetAuth == Init /\ [][NextWidgetAuth]_vars

\* One widget whose operations overlap: the postId prop changes and the
\* Delete buttons are pressed while requests are in flight.
NextLoading ==
  \/ /\ \E b \in PlainBodies : CreatePost(1, b, 0)
     /\ UNCHANGED <<slots, front>>
  \/ \E k \in Channels, p \in PostIds : FetchStart(k, p, AuthUser(1))
  \/ \E k \in Channels : GetAllComments(k, 0)
  \/ \E k \in Channels : FetchDone(k)
  \/ SetNewComment("b")
  \/ \E k \in Channels : SubmitEnabled /\ HandleAddComment(k, AuthUser(1))
  \/ \E k \in Channels : ServeCreateComment(k, 0)
  \/ \E k \in Channels : AddDone(k)
  \/ \E k \in Channels, i \in 1..MaxComments, auth \in AuthUsers :
       HandleDeleteComment(k, i, auth)

SpecLoading == Init /\ [][NextLoading]_vars

(* ------------- every handler, any database operation failing ------------ *)
\* One author's requests on one post, each run with no failure or with the f-th of its
\* database operations throwing.
NextErrors ==
  /\ \/ \E b \in PlainBodies, f \in 0..1 : made.post = 0 /\ CreatePost(1, b, f)
     \/ \E b \in UpdateBodies, f \in 0..4 : UpdatePost(1, 1, b, f)
     \/ \E f \in 0..6 : DeletePost(1, 1, f)
     \/ \E f \in 0..3 : CreateComment(1, 1, "a", f)
     \/ \E f \in 0..2 : EditCommentById(1, 1, "b", f)
     \/ \E f \in 0..3 : DeleteCommentById(1, 1, f)
     \/ \E f \in 0..4 : AddLike(1, 1, f)
     \/ \E f \in 0..4 : RemoveLike(1, 1, f)
  /\ UNCHANGED <<slots, front>>

SpecErrors == Init /\ [][NextErrors]_vars

(* ----------------------- updatePost, field by field --------------------- *)
\* Request bodies of updatePost with each field left out, empty or supplied.
PartialBodies ==
  [title : {Undefined(""), Given(""), Given("b")},
   content : {Undefined(""), Given("c")},
   tags : {Undefined(<< >>), Given(<< >>), Given(<<"y">>)},
   categories : {Undefined(<< >>), Given(<<"m">>)}]

\* The author's tagged, liked and commented post, updated by any user.
NextUpdate ==
  /\ \/ made.post = 0 /\ CreatePost(1, TaggedBody, 0)
     \/ \E u \in Users, b \in PartialBodies : UpdatePost(u, 1, b, 0)
     \/ AddLike(2, 1, 0)
     \/ CreateComment(2, 1, "a", 0)
  /\ UNCHANGED <<slots, front>>

SpecUpdate == Init /\ [][NextUpdate]_vars

(* ------ createComment, addLike and deletePost, one await at a time ------ *)
\* document.save() of a document read earlier: an update of the record with
\* its _id, which throws when that record is gone.
Exists(id) == \E d \in posts : d._id = CastOid(id)
PushSaved(id, field, new) ==
  {IF d._id = CastOid(id) THEN [d EXCEPT ![field] = Append(@, new)] ELSE d : d \in posts}

\* A createComment request arrives, its Post.findById returns and the new
\* Comment is constructed.
BeginCreateComment(r, u, p) ==
  LET postId == ParamId("post", p) IN
  /\ reqs[r].pc = "idle"
  /\ UNCHANGED <<store, failed, resolved>>
  /\ IF FindById(posts, postId) = {} THEN
       /\ resp' = Resp("createComment", 404)
       /\ UNCHANGED <<reqs, made>>
     ELSE
       /\ made.comment < MaxComments
       /\ made' = [made EXCEPT !.comment = @ + 1]
       /\ reqs' = [reqs EXCEPT ![r] =
            [Idle EXCEPT !.pc = "commentSave", !.op = "createComment",
                         !.user = UserId(u), !.id = postId,
                         !.new = Oid("comment", made.comment + 1)]]
       /\ UNCHANGED resp

\* createComment: `await comment.save()` returns; the id is pushed.
CommentSave(r) ==
  LET q == reqs[r] IN
  /\ q.pc = "commentSave"
  /\ comments' = Save(comments, [_id |-> q.new, content |-> "a",
                                 author |-> CastOid(q.user), post |-> CastOid(q.id)])
  /\ reqs' = [reqs EXCEPT ![r].pc = "postSave"]
  /\ UNCHANGED <<posts, likes, tags, categories, made, failed, resp, resolved>>

\* createComment: `await chosenPost.save()` returns or throws; the response.
CommentPostSave(r) ==
  LET q == reqs[r] IN
  /\ q.pc = "postSave"
  /\ reqs' = [reqs EXCEPT ![r] = Idle]
  /\ UNCHANGED <<comments, likes, tags, categories, made, resolved>>
  /\ IF Exists(q.id) THEN
       /\ posts' = PushSaved(q.id, "comments", q.new)
       /\ resp' = Resp("createComment", 201)
       /\ UNCHANGED failed
     ELSE
       /\ resp' = Resp("createComment", 500)
       /\ failed' = Fail("write")
       /\ UNCHANGED posts

\* An addLike request arrives and its Post.findById returns.
BeginAddLike(r, u, p) ==
  LET postId == ParamId("post", p) IN
  /\ reqs[r].pc = "idle"
  /\ UNCHANGED <<store, made, failed, resolved>>
  /\ IF FindById(posts, postId) = {} THEN
       /\ resp' = Resp("addLike", 404)
       /\ UNCHANGED reqs
     ELSE
       /\ reqs' = [reqs EXCEPT ![r] =
            [Idle EXCEPT !.pc = "likeFindOne", !.op = "addLike",
                         !.user = UserId(u), !.id = postId]]
       /\ UNCHANGED resp

\* addLike: `await Like.findOne(...)` returns; a hit is answered 400 and the
\* handler goes on; the new Like is constructed and its id pushed.
LikeFound(r) ==
  LET q == reqs[r]
      first == AddLikeExistingCheck(LikeFindOne(q.user, q.id))
  IN
  /\ q.pc = "likeFindOne"
  /\ made.like < MaxLikes
  /\ made' = [made EXCEPT !.like = @ + 1]
  /\ reqs' = [reqs EXCEPT ![r] =
       [q EXCEPT !.pc = "likePostSave", !.first = first,
                 !.new = Oid("like", made.like + 1)]]
  /\ resp' = IF first # 0 THEN Resp("addLike", first) ELSE resp
  /\ UNCHANGED <<store, failed, resolved>>

\* addLike: `await post.save()` returns or throws.
LikePostSave(r) ==
  LET q == reqs[r] IN
  /\ q.pc = "likePostSave"
  /\ UNCHANGED <<comments, likes, tags, categories, made, resolved>>
  /\ IF Exists(q.id) THEN
       /\ posts' = PushSaved(q.id, "likes", q.new)
       /\ reqs' = [reqs EXCEPT ![r].pc = "likeSave"]
       /\ UNCHANGED <<resp, failed>>
     ELSE
       /\ reqs' = [reqs EXCEPT ![r] = Idle]
       /\ resp' = Resp("addLike", Sent(q.first, 500))
       /\ failed' = Fail("write")
       /\ UNCHANGED posts

\* addLike: `await like.save()` returns; the response.
LikeSave(r) ==
  LET q == reqs[r] IN
  /\ q.pc = "likeSave"
  /\ likes' = Save(likes, [_id |-> q.new, user |-> CastOid(q.user), post |-> CastOid(q.id)])
  /\ reqs' = [reqs EXCEPT ![r] = Idle]
  /\ resp' = Resp("addLike", Sent(q.first, 201))
  /\ UNCHANGED <<posts, comments, tags, categories, made, failed, resolved>>

\* A deletePost request arrives and its Post.findById returns.
BeginDeletePost(r, u, p) ==
  LET userId == UserId(u)
      id == ParamId("post", p)
      found == FindById(posts, id)
  IN
  /\ reqs[r].pc = "idle"
  /\ UNCHANGED <<store, made, failed, resolved>>
  /\ IF found = {} THEN
       /\ resp' = Resp("deletePost", 404)
       /\ UNCHANGED reqs
     ELSE IF NotPostAuthor(userId, CHOOSE d \in found : TRUE) THEN
       /\ resp' = Resp("deletePost", 403)
       /\ UNCHANGED reqs
     ELSE
       /\ reqs' = [reqs EXCEPT ![r] =
            [Idle EXCEPT !.pc = "deleteLikes", !.op = "deletePost",
                         !.user = userId, !.id = id]]
       /\ UNCHANGED resp

\* deletePost: one of its awaits returns: Like.deleteMany, Comment.deleteMany,
\* post.deleteOne, cleanUpTags, cleanUpCategories and then the response.
DeleteStep(r) ==
  LET q == reqs[r]
      post == [_id |-> CastOid(q.id)]
  IN
  /\ q.pc \in {"deleteLikes", "deleteComments", "deleteOne", "cleanUpTags",
               "cleanUpCategories"}
  /\ UNCHANGED <<made, failed, resolved>>
  /\ likes' = IF q.pc = "deleteLikes" THEN DeleteMany(likes, post) ELSE likes
  /\ comments' = IF q.pc = "deleteComments" THEN DeleteMany(comments, post) ELSE comments
  /\ posts' = IF q.pc = "deleteOne" THEN {d \in posts : d._id # post._id} ELSE posts
  /\ tags' = IF q.pc = "cleanUpTags" THEN CleanUp(tags, posts, "tags") ELSE tags
  /\ categories' = IF q.pc = "cleanUpCategories"
                     THEN CleanUp(categories, posts, "categories") ELSE categories
  /\ IF q.pc = "cleanUpCategories" THEN
       /\ reqs' = [reqs EXCEPT ![r] = Idle]
       /\ resp' = Resp("deletePost", 200)
     ELSE
       /\ reqs' = [reqs EXCEPT ![r].pc =
            CASE q.pc = "deleteLikes" -> "deleteComments"
              [] q.pc = "deleteComments" -> "deleteOne"
              [] q.pc = "deleteOne" -> "cleanUpTags"
              [] OTHER -> "cleanUpCategories"]
       /\ UNCHANGED resp

\* The author's post, commented, liked and deleted by requests that overlap.
NextOrphans ==
  /\ \/ \E b \in PlainBodies : made.post = 0 /\ CreatePost(1, b, 0) /\ UNCHANGED slots
     \/ \E r \in Slots, p \in PostIds : BeginCreateComment(r, 2, p)
     \/ \E r \in Slots : CommentSave(r)
     \/ \E r \in Slots : CommentPostSave(r)
     \/ \E r \in Slots, p \in PostIds : BeginAddLike(r, 2, p)
     \/ \E r \in Slots : LikeFound(r)
     \/ \E r \in Slots : LikePostSave(r)
     \/ \E r \in Slots : LikeSave(r)
     \/ \E r \in Slots, p \in PostIds : BeginDeletePost(r, 1, p)
     \/ \E r \in Slots : DeleteStep(r)
  /\ UNCHANGED front

SpecOrphans == Init /\ [][NextOrphans]_vars

(* ------------------------------- likes -------------------------------- *)
\* The Like records of user u on post p, and the posts with id p.
LikesOf(u, p) == {l \in likes : l.user = Oid("user", u) /\ l.post = Oid("post", p)}
PostsAt(p) == {d \in posts : d._id = Oid("post", p)}

\* C3: a like is unique per (user, post): after any sequence of addLike and
\* removeLike requests there is at most one Like record for each pair.
C3_UniqueLike ==
  \A l1 \in likes, l2 \in likes : l1.user = l2.user /\ l1.post = l2.post => l1 = l2

\* Every post's likes array holds exactly the ids of the Like records of that
\* post, each id once.
LikesConsistent ==
  \A d \in posts :
    /\ Range(d.likes) = {l._id : l \in {m \in likes : m.post = d._id}}
    /\ Cardinality(Range(d.likes)) = Len(d.likes)

C5_RemoveOnlyOwnLike ==
  [][\A u \in Users, p \in PostIds, f \in 0..4 :
       (resp'.op = "removeLike" /\ RemoveLike(u, p, f)) =>
         /\ likes' \subseteq likes
         /\ Cardinality(likes \ likes') <= 1
         /\ likes \ likes' \subseteq LikesOf(u, p)
         /\ \A l \in likes : l.user # Oid("user", u) =>
              \A d \in posts : l._id \in Range(d.likes) =>
                \E e \in posts' : e._id = d._id /\ l._id \in Range(e.likes)
         /\ (LikesOf(u, p) = {} /\ f # 1) =>
              resp'.status = 404 /\ likes' = likes /\ posts' = posts]_vars

\* A user removed their like while a like remains recorded and listed.
C5_Witness ==
  /\ resp = Resp("removeLike", 200)
  /\ \E d \in posts, l \in likes : l.post = d._id /\ l._id \in Range(d.likes)

\* C8: when the like save of addLike fails after the post save has succeeded,
\* the request is answered 500 and the post's likes list keeps the new like id
\* although no Like record with that id exists.
C8_NoRollbackAnswered500 ==
  [][\A u \in Users, p \in PostIds :
       (resp'.op = "addLike" /\ AddLike(u, p, 4) /\ PostsAt(p) # {}) =>
         /\ resp'.status = 500
         /\ \E e \in posts' :
              /\ e._id = Oid("post", p)
              /\ Oid("like", made'.like) \in Range(e.likes)
         /\ \A l \in likes' : l._id # Oid("like", made'.like)]_vars

(* ------------------------------ comments ------------------------------ *)
CommentsAt(c) == {d \in comments : d._id = Oid("comment", c)}

\* C1: an edit or delete request by a user who is not the comment's author is
\* answered 403 and leaves the Comment collection and every post unchanged;
\* and a comment changes or disappears in an edit or delete step only when
\* that step is a request of its author.
C1_AuthorOnlyCommentMutation ==
  [][/\ \A u \in Users, c \in CommentIds :
          (/\ resp'.op \in {"editComment", "deleteComment"}
           /\ \E d \in CommentsAt(c) : d.author # Oid("user", u)
           /\ \/ \E t \in {"", "b"} : EditCommentById(u, c, t, 0)
              \/ DeleteCommentById(u, c, 0))
          => /\ comments' = comments
             /\ posts' = posts
             /\ resp'.status = 403
     /\ \A d \in comments :
          (resp'.op \in {"editComment", "deleteComment"} /\ d \notin comments')
          => \/ \E t \in {"", "b"} : EditCommentById(d.author.n, d._id.n, t, 0)
             \/ DeleteCommentById(d.author.n, d._id.n, 0)]_vars

\* A request on an existing comment was answered 403.
C1_Witness ==
  /\ resp.status = 403
  /\ resp.op \in {"editComment", "deleteComment"}
  /\ comments # {}

\* Every post's comments array holds exactly the ids of the Comment records of
\* that post.
CommentsConsistent ==
  \A d \in posts :
    Range(d.comments) = {c._id : c \in {m \in comments : m.post = d._id}}

\* C6: while no database write has failed every post's comments array is
\* consistent; a createComment answered 201 stores one new comment whose author
\* is the requesting user and whose post is the requested post; a createComment
\* for a post that does not exist is answered 404 and creates no comment.
C6_CommentsListConsistent ==
  /\ [](failed # "write" => CommentsConsistent)
  /\ [][\A u \in Users, p \in PostIds, f \in 0..3 :
          (resp'.op = "createComment" /\ CreateComment(u, p, "a", f)) =>
            /\ resp'.status = 201 =>
                 \E c \in comments' \ comments :
                   /\ comments' = comments \cup {c}
                   /\ c.author = Oid("user", u)
                   /\ c.post = Oid("post", p)
                   /\ c.content = "a"
            /\ (PostsAt(p) = {} /\ f # 1) =>
                 resp'.status = 404 /\ comments' = comments /\ posts' = posts]_vars

\* A comment was deleted with no failure so far while another stays listed.
C6_Witness ==
  /\ failed = "none"
  /\ resp = Resp("deleteComment", 200)
  /\ \E d \in posts : d.comments # << >>

(* -------------------------------- posts ------------------------------- *)
\* C2: an updatePost or deletePost request by a user who is not the post's
\* author is answered 403, one for a post id that does not exist is answered
\* 404, and either leaves every collection unchanged.
C2_AuthorOnlyPostMutation ==
  [][\A u \in Users, p \in PostIds :
       (/\ resp'.op \in {"updatePost", "deletePost"}
        /\ \/ \E b \in UpdateBodies : UpdatePost(u, p, b, 0)
           \/ DeletePost(u, p, 0))
       => /\ (\E d \in PostsAt(p) : d.author # Oid("user", u))
               => resp'.status = 403 /\ UNCHANGED store
          /\ PostsAt(p) = {} => resp'.status = 404 /\ UNCHANGED store]_vars

\* A request on a tagged, commented and liked post was answered 403.
C2_Witness ==
  /\ resp.status = 403
  /\ resp.op \in {"updatePost", "deletePost"}
  /\ \E d \in posts : d.tags # << >> /\ d.comments # << >> /\ d.likes # << >>

\* C7: when deletePost is answered 200 the post is gone, no Comment and no Like
\* record of that post remains, and the other posts and the comments and likes
\* of the other posts are unchanged.
C7_CascadeDelete ==
  [][\A u \in Users, p \in PostIds :
       (resp' = Resp("deletePost", 200) /\ DeletePost(u, p, 0)) =>
         /\ \A d \in posts' : d._id # Oid("post", p)
         /\ \A c \in comments' : c.post # Oid("post", p)
         /\ \A l \in likes' : l.post # Oid("post", p)
         /\ posts' = posts \ PostsAt(p)
         /\ comments' = {c \in comments : c.post # Oid("post", p)}
         /\ likes' = {l \in likes : l.post # Oid("post", p)}]_vars

\* A commented and liked post was deleted; the other post keeps its comment
\* and its like.
C7_Witness ==
  /\ resp = Resp("deletePost", 200)
  /\ Cardinality(comments) < made.comment
  /\ Cardinality(likes) < made.like
  /\ \E d \in posts : d.comments # << >> /\ d.likes # << >>

(* ------------------------------- widget ------------------------------- *)
\* C10: when the widget's fetch receives a successful response of
\* getAllComments, its comments state holds exactly the comments the backend
\* returned: the same ids and contents, as many entries.
C10_WidgetShowsComments ==
  [][\A k \in Channels :
       (FetchDone(k) /\ net[k].status = 200) =>
         LET returned == Get(net[k].body, "allComments").items IN
         /\ Len(widget'.comments) = Len(returned)
         /\ \A i \in DOMAIN returned :
              /\ Get(widget'.comments[i], "_id") = Get(returned[i], "_id")
              /\ Get(widget'.comments[i], "content") = Get(returned[i], "content")]_vars

\* The comment a stored entry stands for (the entry itself, or the comment a
\* response wraps), and the id of that comment's author.
ShownComment(entry) ==
  IF Get(entry, "comment") # JUndefined THEN Get(entry, "comment") ELSE entry
AuthorIdOf(entry) ==
  LET author == Get(ShownComment(entry), "author")
  IN IF "t" \in DOMAIN author THEN Get(author, "_id") ELSE author

\* C11: for a comment shown in the widget, handleUpdateComment and
\* handleDeleteComment send their PUT or DELETE exactly when a token is
\* present and the logged-in user's id is the id of the comment's author (so
\* the author of a comment got by fetch or by add can edit and delete it);
\* a non-author causes no request and no change to the comments list.
C11_ClientOwnershipCheck ==
  [][\A k \in Channels, auth \in AuthUsers :
       /\ \A i \in 1..MaxComments :
            HandleDeleteComment(k, i, auth) =>
              /\ (net'[k].phase = "request" /\ net'[k].method = "DELETE")
                   <=> (Truthy(auth.token) /\ auth.id = AuthorIdOf(widget.comments[i]))
              /\ auth.id # AuthorIdOf(widget.comments[i]) =>
                   net' = net /\ widget'.comments = widget.comments
       /\ HandleUpdateComment(k, auth) =>
              /\ (net'[k].phase = "request" /\ net'[k].method = "PUT")
                   <=> (Truthy(auth.token) /\ auth.id = AuthorIdOf(widget.editComment))
              /\ auth.id # AuthorIdOf(widget.editComment) =>
                   net' = net /\ widget'.comments = widget.comments]_vars

\* C12: with no stored token none of fetchComments, handleAddComment,
\* handleUpdateComment and handleDeleteComment sends a request or changes the
\* comments list; a request that is sent carries the stored token; and
\* handleAddComment sends nothing when the input is empty or only whitespace.
C12_OnlyAuthenticatedRequests ==
  /\ [](\A k \in Channels : net[k].phase # "idle" => Truthy(net[k].token))
  /\ [][\A k \in Channels, auth \in AuthUsers :
          LET Started ==
                \/ \E p \in PostIds : FetchStart(k, p, auth)
                \/ HandleAddComment(k, auth)
                \/ HandleUpdateComment(k, auth)
                \/ \E i \in 1..MaxComments : HandleDeleteComment(k, i, auth)
          IN
          /\ Started /\ ~Truthy(auth.token) =>
               net' = net /\ widget'.comments = widget.comments
          /\ Started /\ net' # net =>
               net'[k].phase = "request" /\ net'[k].token = auth.token
          /\ HandleAddComment(k, auth) /\ widget.newComment \in {"", " "} =>
               net' = net /\ widget'.comments = widget.comments]_vars

\* A widget holding a comment has refused an operation for want of a token,
\* and has a request with the stored token in flight.
C12_Witness ==
  /\ widget.comments # << >>
  /\ widget.alert = NoTokenAlert
  /\ \E k \in Channels : net[k].phase = "request" /\ net[k].token = "token"

\* The creation time of the comment an entry stands for.
CreatedOf(entry) == Get(ShownComment(entry), "createdAt").v

\* s and t hold the same entries, each as often.
IsPermutation(s, t) ==
  /\ Len(s) = Len(t)
  /\ \A x \in Range(s) \cup Range(t) :
       Cardinality({i \in DOMAIN s : s[i] = x}) = Cardinality({i \in DOMAIN t : t[i] = x})

\* C13: renderComments renders a permutation of the comments list, newest
\* first under "newest" and oldest first under "oldest"; changing the sort
\* option or toggling visibility sends nothing and leaves the list alone.
C13_LocalSort ==
  /\ [](/\ IsPermutation(renderComments, widget.comments)
        /\ \A i, j \in DOMAIN renderComments :
             i < j =>
               /\ widget.sortOption = "newest" =>
                    CreatedOf(renderComments[i]) >= CreatedOf(renderComments[j])
               /\ widget.sortOption = "oldest" =>
                    CreatedOf(renderComments[i]) <= CreatedOf(renderComments[j]))
  /\ [][(ToggleShowComments \/ \E option \in {"newest", "oldest"} : SetSortOption(option))
          => net' = net /\ widget'.comments = widget.comments]_vars

\* The (_id, content) pairs of the widget's list and of the server's comments
\* of the widget's post.
WidgetPairs(list) == {<<Get(list[i], "_id"), Get(list[i], "content")>> : i \in DOMAIN list}
ServerPairs(cs) ==
  {<<IdString(c._id), JString(c.content)>> :
     c \in {d \in cs : d.post = Oid("post", widget.postId)}}

\* C14: from a widget list equal to the server's comments of the post, a
\* successful add puts the created comment, with the _id and content the
\* server stored, first; a successful edit gives the edited entry the stored
\* content; a successful delete removes the entry; the other entries stay,
\* and the widget's (_id, content) pairs again equal the server's.
C14_ListTracksServer ==
  [][\A k \in Channels :
       /\ (/\ AddDone(k) /\ Ok(net[k].status) /\ ~widget.crashed
           /\ WidgetPairs(widget.comments) \cup
                {<<Get(Get(net[k].body, "comment"), "_id"),
                   Get(Get(net[k].body, "comment"), "content")>>} = ServerPairs(comments)) =>
            LET created == Get(net[k].body, "comment") IN
            /\ Len(widget'.comments) = Len(widget.comments) + 1
            /\ Get(widget'.comments[1], "_id") = Get(created, "_id")
            /\ Get(widget'.comments[1], "content") = Get(created, "content")
            /\ SubSeq(widget'.comments, 2, Len(widget'.comments)) = widget.comments
            /\ WidgetPairs(widget.comments) \cup {<<Get(created, "_id"), Get(created, "content")>>}
                 = WidgetPairs(widget'.comments)
       /\ (UpdateDone(k) /\ Ok(net[k].status) /\ ~widget.crashed) =>
            /\ Len(widget'.comments) = Len(widget.comments)
            /\ \A i \in DOMAIN widget.comments :
                 IF Get(widget.comments[i], "_id") = net[k].edit
                   THEN \E c \in comments :
                          /\ IdString(c._id) = net[k].edit
                          /\ Get(widget'.comments[i], "content") = JString(c.content)
                   ELSE widget'.comments[i] = widget.comments[i]
       /\ (DeleteDone(k) /\ Ok(net[k].status) /\ ~widget.crashed) =>
            widget'.comments = SelectSeq(widget.comments,
                                 LAMBDA e : Get(e, "_id") # net[k].edit)
       /\ ((AddDone(k) \/ UpdateDone(k) \/ DeleteDone(k))
             /\ Ok(net[k].status) /\ ~widget.crashed
             /\ \A j \in Channels \ {k} : net[j].phase = "idle") =>
            WidgetPairs(widget'.comments) = ServerPairs(comments)]_vars

\* C18: loading is true while any fetch, add, update or delete of the widget
\* has not finished, overlapping ones included, and false once all have
\* finished; when handleUpdateComment finishes the widget is out of edit mode
\* with an empty input.
C18_LoadingBrackets ==
  /\ [](~widget.crashed =>
          widget.loading = (\E k \in Channels : net[k].phase # "idle"))
  /\ [][\A k \in Channels, auth \in AuthUsers :
          ((HandleUpdateComment(k, auth) /\ net' = net) \/ (UpdateDone(k) /\ ~widget.crashed))
            => widget'.editComment = JNull /\ widget'.newComment = ""]_vars

(* ------------------------------- errors ------------------------------- *)
\* C15: every run of a post, comment or like handler, with a database
\* operation failing at any step or with none failing, sends a response, and
\* answers 500 when a database operation failed in it.
C15_AnsweredOnceAnd500OnFailure ==
  [][/\ resp'.status # 0
     /\ (failed = "none" /\ failed' # "none") => resp'.status = 500]_vars

(* ------------------------------- updates ------------------------------ *)
\* ids are the ids of records of coll named names, in order.
ResolvedTo(ids, names, coll) ==
  /\ Len(ids) = Len(names)
  /\ \A i \in DOMAIN names : \E t \in coll : t._id = ids[i] /\ t.name = names[i]

\* Whether a title or content field counts as supplied: given at all, or
\* given and non-empty.
Supplied(field, nonEmpty) == field.given /\ (nonEmpty => field.v # "")

\* What a successful updatePost with body b leaves of post old in new.
PartialUpdate(old, new, b, nonEmpty) ==
  /\ new.title = IF Supplied(b.title, nonEmpty) THEN b.title.v ELSE old.title
  /\ new.content = IF Supplied(b.content, nonEmpty) THEN b.content.v ELSE old.content
  /\ IF b.tags.given THEN ResolvedTo(new.tags, b.tags.v, tags')
                     ELSE new.tags = old.tags
  /\ IF b.categories.given THEN ResolvedTo(new.categories, b.categories.v, categories')
                           ELSE new.categories = old.categories
  /\ new.author = old.author
  /\ new.comments = old.comments
  /\ new.likes = old.likes

\* Every successful updatePost step is a partial update.
UpdatesPartially(nonEmpty) ==
  \A u \in Users, p \in PostIds, b \in PartialBodies :
    (resp'.op = "updatePost" /\ resp'.status = 200 /\ UpdatePost(u, p, b, 0)) =>
      \E old \in PostsAt(p) : \E new \in posts' :
        /\ new._id = old._id
        /\ PartialUpdate(old, new, b, nonEmpty)
        /\ posts' \ {new} = posts \ {old}

C17_NoOrphans ==
  (\A r \in Slots : reqs[r].pc = "idle") =>
    /\ \A c \in comments : \E d \in posts : d._id = c.post
    /\ \A l \in likes : \E d \in posts : d._id = l.post

====
